---- MODULE Spec2Model ----
(***************************************************************************)
(* Model of the substation capacity pipeline.                              *)
(*                                                                         *)
(*   processor.py  DataProcessor (PDF variant) and the __main__ merge      *)
(*                 script (one spreadsheet per grid operator)              *)
(*   app.py        load_data, get_color, calculate_radius and the filters  *)
(*                                                                         *)
(* Floats are exact rationals [k |-> "f", n, d] in lowest terms, together  *)
(* with NaN, +inf and -inf.  Text is a tuple of one-character strings.     *)
(***************************************************************************)
EXTENDS Integers, Sequences, FiniteSets, TLC

(***************************************************************************)
(* Floating point values                                                   *)
(***************************************************************************)
Abs(i) == IF i < 0 THEN -i ELSE i

RECURSIVE GCD(_, _)
GCD(a, b) == IF b = 0 THEN Abs(a) ELSE GCD(b, a % Abs(b))

\* the float n/d, d # 0, in lowest terms with a positive denominator
Q(n, d) ==
    LET g == GCD(n, d)
        s == IF d < 0 THEN -1 ELSE 1
    IN  [k |-> "f", n |-> s * (n \div g), d |-> s * (d \div g)]

F(i) == Q(i, 1)
NaN == [k |-> "nan"]
PInf == [k |-> "inf"]
NInf == [k |-> "-inf"]

IsNum(v) == v.k = "f"
IsInf(v) == v.k \in {"inf", "-inf"}
IsFloat(v) == v.k \in {"f", "nan", "inf", "-inf"}
IsNA(v) == v.k = "nan"

\* IEEE comparisons: every comparison with NaN is false
FLt(a, b) ==
    CASE a.k = "nan" \/ b.k = "nan" -> FALSE
      [] a.k = "inf" -> FALSE
      [] b.k = "-inf" -> FALSE
      [] a.k = "-inf" -> TRUE
      [] b.k = "inf" -> TRUE
      [] OTHER -> a.n * b.d < b.n * a.d
FGt(a, b) == FLt(b, a)
FEq(a, b) == a.k # "nan" /\ b.k # "nan" /\ a = b
FLe(a, b) == FLt(a, b) \/ FEq(a, b)
FGe(a, b) == FLe(b, a)

FNeg(a) ==
    CASE a.k = "f" -> Q(-a.n, a.d)
      [] a.k = "inf" -> NInf
      [] a.k = "-inf" -> PInf
      [] OTHER -> NaN

FAdd(a, b) ==
    CASE a.k = "nan" \/ b.k = "nan" -> NaN
      [] a.k = "f" /\ b.k = "f" ->
            LET g == GCD(a.d, b.d)
            IN  Q(a.n * (b.d \div g) + b.n * (a.d \div g), (a.d \div g) * b.d)
      [] a.k = "f" -> b
      [] b.k = "f" -> a
      [] a = b -> a
      [] OTHER -> NaN

FSub(a, b) == FAdd(a, FNeg(b))

Sign(v) == IF v.k = "f" THEN (IF v.n > 0 THEN 1 ELSE IF v.n < 0 THEN -1 ELSE 0)
           ELSE IF v.k = "inf" THEN 1 ELSE -1

FMul(a, b) ==
    CASE a.k = "nan" \/ b.k = "nan" -> NaN
      [] a.k = "f" /\ b.k = "f" ->
            LET g1 == GCD(a.n, b.d)
                g2 == GCD(b.n, a.d)
            IN  Q((a.n \div g1) * (b.n \div g2), (a.d \div g2) * (b.d \div g1))
      [] Sign(a) * Sign(b) = 0 -> NaN
      [] Sign(a) * Sign(b) > 0 -> PInf
      [] OTHER -> NInf

\* numpy division: x/0 is +-inf, 0/0 is NaN, no exception
FDiv(a, b) ==
    CASE a.k = "nan" \/ b.k = "nan" -> NaN
      [] a.k = "f" /\ b.k = "f" ->
            IF b.n = 0
            THEN (IF a.n = 0 THEN NaN ELSE IF a.n > 0 THEN PInf ELSE NInf)
            ELSE FMul(a, Q(b.d, b.n))
      [] IsInf(a) /\ IsInf(b) -> NaN
      [] IsInf(a) -> IF Sign(a) * (IF Sign(b) < 0 THEN -1 ELSE 1) > 0 THEN PInf ELSE NInf
      [] OTHER -> F(0)

RECURSIVE Pow10(_)
Pow10(i) == IF i = 0 THEN 1 ELSE 10 * Pow10(i - 1)

\* n/d rounded to the nearest integer, ties to the even one (d > 0)
RoundHalfEven(n, d) ==
    LET q == n \div d
        r == n % d
    IN  IF 2 * r < d THEN q
        ELSE IF 2 * r > d THEN q + 1
        ELSE IF q % 2 = 0 THEN q ELSE q + 1

\* Series.round(digits)
Round(v, digits) ==
    IF v.k # "f" \/ Pow10(digits) % v.d = 0 THEN v
    ELSE FAdd(F(v.n \div v.d), Q(RoundHalfEven((v.n % v.d) * Pow10(digits), v.d), Pow10(digits)))

(***************************************************************************)
(* Text: a tuple of one-character strings                                  *)
(***************************************************************************)
DigitChars == <<"0", "1", "2", "3", "4", "5", "6", "7", "8", "9">>
Digits == {DigitChars[i] : i \in 1..10}
DigitVal(c) == (CHOOSE i \in 1..10 : DigitChars[i] = c) - 1
Whitespace == {" ", "\t", "\n", "\r"}

Str(s) == [k |-> "s", s |-> s]
Err == [k |-> "err"]
IsStr(v) == v.k = "s"

\* str.replace(old, new) for one-character old and new
RECURSIVE StrReplace(_, _, _)
StrReplace(s, old, new) ==
    IF s = <<>> THEN <<>>
    ELSE <<IF Head(s) = old THEN new ELSE Head(s)>> \o StrReplace(Tail(s), old, new)

RECURSIVE LStrip(_)
LStrip(s) == IF s # <<>> /\ Head(s) \in Whitespace THEN LStrip(Tail(s)) ELSE s

RECURSIVE RStrip(_)
RStrip(s) ==
    IF s # <<>> /\ s[Len(s)] \in Whitespace THEN RStrip(SubSeq(s, 1, Len(s) - 1)) ELSE s

\* str.strip()
StrStrip(s) == RStrip(LStrip(s))

\* re.sub(r"\s+", " ", s)
RECURSIVE CollapseSpaces(_)
CollapseSpaces(s) ==
    IF s = <<>> THEN <<>>
    ELSE IF Head(s) \in Whitespace
         THEN <<" ">> \o CollapseSpaces(LStrip(s))
         ELSE <<Head(s)>> \o CollapseSpaces(Tail(s))

\* re.sub(r"[^\d\.\-]", "", s)
RECURSIVE KeepNumericChars(_)
KeepNumericChars(s) ==
    IF s = <<>> THEN <<>>
    ELSE (IF Head(s) \in Digits \cup {".", "-"} THEN <<Head(s)>> ELSE <<>>)
         \o KeepNumericChars(Tail(s))

RECURSIVE NatToChars(_)
NatToChars(i) ==
    IF i < 10 THEN <<DigitChars[i + 1]>>
    ELSE NatToChars(i \div 10) \o <<DigitChars[(i % 10) + 1]>>

RECURSIVE ZeroPad(_, _)
ZeroPad(s, width) == IF Len(s) >= width THEN s ELSE ZeroPad(<<"0">> \o s, width)

RECURSIVE DropTrailingZeros(_)
DropTrailingZeros(s) ==
    IF Len(s) > 1 /\ s[Len(s)] = "0" THEN DropTrailingZeros(SubSeq(s, 1, Len(s) - 1)) ELSE s

\* number of decimals kept when a float is printed
FloatDigits == 6

\* the digits of a float below 0.0001 in scientific notation: "1e-05", "2.5e-05"
\* (d: the decimals without leading zeros)
SciRepr(d) ==
    <<Head(d)>>
    \o (IF Len(DropTrailingZeros(d)) > 1 THEN <<".">> \o Tail(DropTrailingZeros(d)) ELSE <<>>)
    \o <<"e", "-">> \o ZeroPad(NatToChars(FloatDigits + 1 - Len(d)), 2)

\* repr of a float: "12.0", "0.5", "-2.25", "nan", "inf", "1e-05"
FloatRepr(v) ==
    CASE v.k = "nan" -> <<"n", "a", "n">>
      [] v.k = "inf" -> <<"i", "n", "f">>
      [] v.k = "-inf" -> <<"-", "i", "n", "f">>
      [] OTHER ->
            LET m == RoundHalfEven((Abs(v.n) % v.d) * Pow10(FloatDigits), v.d)
                ip == (Abs(v.n) \div v.d) + (m \div Pow10(FloatDigits))
                fp == m % Pow10(FloatDigits)
            IN  (IF v.n < 0 THEN <<"-">> ELSE <<>>)
                \o (IF ip = 0 /\ fp > 0 /\ fp < Pow10(FloatDigits - 4)
                    THEN SciRepr(NatToChars(fp))
                    ELSE NatToChars(ip) \o <<".">>
                         \o DropTrailingZeros(ZeroPad(NatToChars(fp), FloatDigits)))

\* Series.astype(str), per cell
AsStr(c) == IF c.k = "s" THEN c.s ELSE FloatRepr(c)

RECURSIVE DigitsToNat(_, _)
DigitsToNat(s, acc) ==
    IF s = <<>> THEN acc ELSE DigitsToNat(Tail(s), 10 * acc + DigitVal(Head(s)))

AllDigits(s) == \A i \in 1..Len(s) : s[i] \in Digits

\* an unsigned decimal: digits, at most one period, at least one digit
ParseUnsigned(s) ==
    LET dots == {i \in 1..Len(s) : s[i] = "."}
    IN  IF dots = {}
        THEN (IF s # <<>> /\ AllDigits(s) THEN F(DigitsToNat(s, 0)) ELSE Err)
        ELSE LET p == CHOOSE i \in dots : TRUE
                 ip == SubSeq(s, 1, p - 1)
                 fp == SubSeq(s, p + 1, Len(s))
             IN  IF Cardinality(dots) = 1 /\ AllDigits(ip) /\ AllDigits(fp)
                    /\ Len(ip) + Len(fp) > 0
                 THEN Q(DigitsToNat(ip \o fp, 0), Pow10(Len(fp)))
                 ELSE Err

ParseSigned(s) ==
    IF s # <<>> /\ Head(s) \in {"-", "+"}
    THEN LET u == ParseUnsigned(Tail(s))
         IN  IF u = Err THEN Err ELSE IF Head(s) = "-" THEN FNeg(u) ELSE u
    ELSE ParseUnsigned(s)

\* mantissa times ten to the exponent ex ("-05", "3"; <<>> when the text has none)
ScaleByExp(mant, ex, has_exp) ==
    LET ds == IF ex # <<>> /\ Head(ex) \in {"-", "+"} THEN Tail(ex) ELSE ex
    IN  IF ~has_exp THEN mant
        ELSE IF mant = Err \/ ds = <<>> \/ ~AllDigits(ds) THEN Err
        ELSE IF Head(ex) = "-" THEN FDiv(mant, F(Pow10(DigitsToNat(ds, 0))))
        ELSE FMul(mant, F(Pow10(DigitsToNat(ds, 0))))

\* a decimal with an optional exponent: "2.5", "-3", "1e-05"
ParseDecimal(s) ==
    LET es == {i \in 1..Len(s) : s[i] \in {"e", "E"}}
        p == IF es = {} THEN Len(s) + 1 ELSE CHOOSE i \in es : \A j \in es : i <= j
    IN  ScaleByExp(ParseSigned(SubSeq(s, 1, p - 1)), SubSeq(s, p + 1, Len(s)), es # {})

Lower(c) == IF c = "N" THEN "n" ELSE IF c = "A" THEN "a" ELSE c

\* float(text): surrounding whitespace allowed, "nan" accepted, anything else raises
\* ValueError (Err).  "inf" and "_" are outside the cells drawn here.
PyFloat(s) ==
    LET t == StrStrip(s)
        u == IF t # <<>> /\ Head(t) \in {"-", "+"} THEN Tail(t) ELSE t
    IN  IF [i \in 1..Len(u) |-> Lower(u[i])] = <<"n", "a", "n">> THEN NaN
        ELSE ParseDecimal(t)

\* Series.astype(float), per cell: floats and NaN stay, text goes through float()
AsFloat(c) == IF c.k = "s" THEN PyFloat(c.s) ELSE c

\* pd.to_numeric(text, errors="coerce"): empty or unparseable text is NaN
ToNumericCoerce(s) ==
    LET t == StrStrip(s)
        v == ParseDecimal(t)
    IN  IF t = <<>> \/ v = Err THEN NaN ELSE v

(***************************************************************************)
(* Tables: a DataFrame is a sequence of rows, a row a function from        *)
(* column name to cell                                                     *)
(***************************************************************************)
RowSet(row, col, val) ==
    [c \in DOMAIN row \cup {col} |-> IF c = col THEN val ELSE row[c]]

Columns(df) == IF df = <<>> THEN {} ELSE DOMAIN df[1]

\* a rename that blanks the names it does not know
NewNameKnownOnly(mapping, h) == IF h \in DOMAIN mapping THEN mapping[h] ELSE ""

\* DataFrame.rename(columns=mapping): names that are no key pass through unchanged
NewName(mapping, h) == IF h \in DOMAIN mapping THEN mapping[h] ELSE h

RenameColumns(row, mapping) ==
    [c \in {NewName(mapping, h) : h \in DOMAIN row} |->
        row[CHOOSE h \in DOMAIN row : NewName(mapping, h) = c]]

RENAME_DICT ==
    ("Gestor de Red" :> "gestor_red") @@ ("Gestor de red" :> "gestor_red")
    @@ ("Provincia" :> "provincia") @@ ("Municipio" :> "municipio")
    @@ ("Coordenada UTM X" :> "x") @@ ("Coordenada UTM Y" :> "y")
    @@ ("Coordenada UTM X [1]" :> "x") @@ ("Coordenada UTM Y [1]" :> "y")
    @@ ("Coordenadas X (m) (ETRS89)" :> "x") @@ ("Coordenadas Y (m) (ETRS89)" :> "y")
    @@ ("Subestación" :> "subestacion") @@ ("Subestación " :> "subestacion")
    @@ ("Nombre Subestación" :> "subestacion_nombre")
    @@ ("Nombre subestación" :> "subestacion_nombre")
    @@ ("Identificador de la subestación" :> "subestacion")
    @@ ("Matrícula Sub." :> "subestacion_matricula")
    @@ ("Nivel de Tensión (kV)" :> "kv") @@ ("Nivel de tensión (kV)" :> "kv")
    @@ ("Capacidad disponible (MW)" :> "cap_disp")
    @@ ("Capacidad firme disponible (MW)" :> "cap_disp")
    @@ ("Capacidad firme disponible (MW) [2]" :> "cap_disp")
    @@ ("Capacidad comprometida por cuestiones regulatorias" :> "cap_comp")
    @@ ("Capacidad ocupada (MW)" :> "cap_ocup")
    @@ ("Capacidad de acceso firme de demanda ocupada (MW)" :> "cap_ocup")
    @@ ("Capacidad de acceso firme de demanda ocupada (MW) [3]" :> "cap_ocup")
    @@ ("Capacidad admitida y no resuelta (MW)" :> "cap_no_eval")
    @@ ("Capacidad de acceso firme admitida y no evaluada (MW)" :> "cap_no_eval")
    @@ ("Capacidad de acceso firme admitida y no evaluada (MW) [4]" :> "cap_no_eval")
    @@ ("Posiciones ocupadas" :> "pos_ocupadas") @@ ("Posiciones libres" :> "pos_libres")
    @@ ("Nudo Afección RdT" :> "nudo") @@ ("Nudo de afección RdT" :> "nudo")
    @@ ("Nudo limitado por Scc " :> "nudo") @@ ("Nudo 0*" :> "nudo")
    @@ ("Nudo 0* " :> "nudo")
    @@ ("Comentarios" :> "comentarios") @@ ("Comentario Regulatorio" :> "comentarios")
    @@ ("Comunidad Autónoma" :> "comunidad_autonoma")
    @@ ("Denominación del Punto de Conexión" :> "punto_conexion")
    @@ ("Identificador del Punto de Conexión" :> "id_punto")

\* rename_cols of DataProcessor.process_data
rename_cols ==
    ("Provincia" :> "provincia") @@ ("Municipio" :> "municipio")
    @@ ("Coordenadas X (m) (ETRS89)" :> "x") @@ ("Coordenadas Y (m) (ETRS89)" :> "y")
    @@ ("Identificador de la subestación" :> "id_subestacion")
    @@ ("Nombre Subestación" :> "subestacion")
    @@ ("Nivel de tensión (kV)" :> "kv")
    @@ ("Denominación del Punto de Conexión" :> "punto_conexion")
    @@ ("Identificador del Punto de Conexión" :> "id_punto")
    @@ ("Capacidad firme disponible (MW)" :> "cap_disp")
    @@ ("Capacidad comprometida por cuestiones regulatorias" :> "cap_comp")
    @@ ("Capacidad de acceso firme de demanda ocupada (MW)" :> "cap_ocup")
    @@ ("Capacidad de acceso firme admitida y no evaluada (MW)" :> "cap_no_eval")
    @@ ("Comentario Regulatorio" :> "comentario")

(***************************************************************************)
(* Steps shared by the pipeline variants                                   *)
(***************************************************************************)
\* df[c].astype(str).str.replace(",", ".").astype(float), per cell; Err is ValueError
CoordToFloat(c) == PyFloat(StrReplace(AsStr(c), ",", "."))

\* pyproj Transformer.transform(x, y), always_xy: (lon, lat).  The projection itself is
\* an external library: finite input gives finite degrees (an affine stand-in), input
\* that cannot be projected gives nanOut, which the PROJ build decides (NaN or inf).
Transform(x, y, nanOut) ==
    IF IsNum(x) /\ IsNum(y)
    THEN [lon |-> FSub(FDiv(FSub(x, F(440000)), F(7)), F(3)),
          lat |-> FAdd(FDiv(FSub(y, F(4470000)), F(7)), F(40))]
    ELSE [lon |-> nanOut, lat |-> nanOut]

\* the guard letting a total of 0 through to the division
PctGuardBroken(cap_disp, cap_total) ==
    IF FGe(cap_total, F(0)) THEN FMul(FDiv(cap_disp, cap_total), F(100)) ELSE F(0)

\* np.where(cap_total > 0, cap_disp / cap_total * 100, 0)
PorcentajeDisponible(cap_disp, cap_total) ==
    IF FGt(cap_total, F(0)) THEN FMul(FDiv(cap_disp, cap_total), F(100)) ELSE F(0)

_get_color_by_percentage(porcentaje) ==
    IF FEq(porcentaje, F(0)) THEN "red"
    ELSE IF FLe(porcentaje, F(25)) THEN "orange"
    ELSE IF FLe(porcentaje, F(50)) THEN "yellow"
    ELSE IF FLe(porcentaje, F(75)) THEN "lightgreen"
    ELSE "green"

\* Series.max() / Series.min(): NaN cells are skipped, NaN when nothing is left
NumCells(df, col) == {df[i][col] : i \in {j \in 1..Len(df) : IsNum(df[j][col])}}
SeriesMax(df, col) ==
    IF NumCells(df, col) = {} THEN NaN
    ELSE CHOOSE m \in NumCells(df, col) : \A v \in NumCells(df, col) : FLe(v, m)
SeriesMin(df, col) ==
    IF NumCells(df, col) = {} THEN NaN
    ELSE CHOOSE m \in NumCells(df, col) : \A v \in NumCells(df, col) : FLe(m, v)

\* "Calcular radios normalizados": 3 + 12 * (cap_total - min) / (max - min), else 8
RadiusColumn(df, min_capacity, max_capacity) ==
    IF FGt(max_capacity, min_capacity)
    THEN [i \in 1..Len(df) |->
            RowSet(df[i], "radius",
                FAdd(F(3), FMul(FDiv(FSub(df[i]["cap_total"], min_capacity),
                                     FSub(max_capacity, min_capacity)), F(12))))]
    ELSE [i \in 1..Len(df) |-> RowSet(df[i], "radius", F(8))]

\* the scale taken from the rows of each row's own source
WithRadiusPerSource(df) ==
    [i \in 1..Len(df) |->
        LET SourceOf(row) ==
                IF "gestor_red" \in DOMAIN row THEN row["gestor_red"] ELSE Str(<<>>)
            own == {df[j]["cap_total"] :
                       j \in {k \in 1..Len(df) : /\ SourceOf(df[k]) = SourceOf(df[i])
                                                  /\ IsNum(df[k]["cap_total"])}}
            lo == IF own = {} THEN NaN ELSE CHOOSE m \in own : \A v \in own : FLe(m, v)
            hi == IF own = {} THEN NaN ELSE CHOOSE m \in own : \A v \in own : FLe(v, m)
        IN  RowSet(df[i], "radius",
                IF FGt(hi, lo)
                THEN FAdd(F(3), FMul(FDiv(FSub(df[i]["cap_total"], lo), FSub(hi, lo)), F(12)))
                ELSE F(8))]

WithRadius(df) == RadiusColumn(df, SeriesMin(df, "cap_total"), SeriesMax(df, "cap_total"))

\* "Redondear valores para mejor presentacion"
RoundColumns(df) ==
    [i \in 1..Len(df) |->
        [c \in DOMAIN df[i] |->
            CASE c = "cap_total" -> Round(df[i][c], 2)
              [] c = "porcentaje_disponible" -> Round(df[i][c], 1)
              [] c \in {"lat", "lon"} -> Round(df[i][c], 6)
              [] OTHER -> df[i][c]]]

(***************************************************************************)
(* data.csv                                                                *)
(***************************************************************************)
\* text that read_csv takes for a missing value
NAStrings == {<<>>, <<"n", "a", "n">>, <<"N", "a", "N">>, <<"N", "A">>, <<"N", "/", "A">>}

\* DataFrame.to_csv(index=False): a missing value is written as an empty field, a float
\* by its repr (which reads back as the same float), text as it is
ToCsv(df) ==
    [i \in 1..Len(df) |-> [c \in DOMAIN df[i] |-> IF IsNA(df[i][c]) THEN Str(<<>>) ELSE df[i][c]]]

\* pd.read_csv: a column whose fields are all numbers or missing is numeric, any other
\* column holds text; missing fields are NaN either way
CsvNumericColumn(rows, c) ==
    \A i \in 1..Len(rows) :
        \/ rows[i][c].k # "s"
        \/ rows[i][c].s \in NAStrings
        \/ ParseDecimal(rows[i][c].s) # Err

ReadCsv(rows) ==
    [i \in 1..Len(rows) |->
        [c \in DOMAIN rows[i] |->
            LET v == rows[i][c]
            IN  IF v.k = "s" /\ v.s \in NAStrings THEN NaN
                ELSE IF CsvNumericColumn(rows, c)
                     THEN (IF v.k = "s" THEN ParseDecimal(v.s) ELSE v)
                     ELSE (IF v.k = "s" THEN v ELSE Str(FloatRepr(v)))]]

NoFile == [exists |-> FALSE, rows |-> <<>>]
CsvFile(rows) == [exists |-> TRUE, rows |-> rows]

(***************************************************************************)
(* The __main__ merge script                                               *)
(***************************************************************************)
MainColumns ==
    {"gestor_red", "provincia", "municipio", "lat", "lon", "subestacion_nombre",
     "subestacion", "kv", "cap_disp", "cap_comp", "cap_ocup", "cap_no_eval", "comentarios"}

CapColumns == {"cap_disp", "cap_comp", "cap_ocup", "cap_no_eval"}

\* "Normalizar numeros y vacios":
\* astype(str).str.replace(",", ".").str.strip().replace("", np.nan).astype(float)
CapToFloat(c) ==
    LET t == StrStrip(StrReplace(AsStr(c), ",", "."))
    IN  IF t = <<>> THEN NaN ELSE PyFloat(t)

Raised(e) == [err |-> e, df |-> <<>>]
Returned(df) == [err |-> "none", df |-> df]

\* cap_total of the merge script: all four capacities
MainCapTotal(row) ==
    FAdd(FAdd(FAdd(row["cap_disp"], row["cap_comp"]), row["cap_ocup"]), row["cap_no_eval"])

\* lines 280-305: coordinates, gestor_red, the projection on the output columns
MainProject(row, stem, nanOut) ==
    LET geo == Transform(CoordToFloat(row["x"]), CoordToFloat(row["y"]), nanOut)
    IN  [c \in MainColumns |->
            CASE c = "lon" -> geo.lon
              [] c = "lat" -> geo.lat
              [] c = "gestor_red" -> Str(stem)
              [] OTHER -> row[c]]

MainCoerceCaps(row) ==
    [c \in DOMAIN row |-> IF c \in CapColumns THEN CapToFloat(row[c]) ELSE row[c]]

\* lines 344-351: cap_total, porcentaje_disponible, color
MainDerive(row) ==
    LET pct == PorcentajeDisponible(row["cap_disp"], MainCapTotal(row))
    IN  [c \in DOMAIN row \cup {"cap_total", "porcentaje_disponible", "color"} |->
            CASE c = "cap_total" -> MainCapTotal(row)
              [] c = "porcentaje_disponible" -> pct
              [] c = "color" -> Str(<<_get_color_by_percentage(pct)>>)
              [] OTHER -> row[c]]

\* one pass of the loop body over a spreadsheet, up to the color column
ReadExcelFile(file, nanOut) ==
    LET df0 == [i \in 1..Len(file.rows) |-> RenameColumns(file.rows[i], RENAME_DICT)]
    IN  IF ~({"x", "y"} \subseteq Columns(df0)) THEN Raised("KeyError")
        ELSE IF \E i \in 1..Len(df0) :
                   CoordToFloat(df0[i]["x"]) = Err \/ CoordToFloat(df0[i]["y"]) = Err
             THEN Raised("ValueError")
        ELSE IF ~((MainColumns \ {"gestor_red", "lat", "lon"}) \subseteq Columns(df0))
             THEN Raised("KeyError")
        ELSE IF \E i \in 1..Len(df0) : \E c \in CapColumns : CapToFloat(df0[i][c]) = Err
             THEN Raised("ValueError")
        ELSE Returned([i \in 1..Len(df0) |->
                         MainDerive(MainCoerceCaps(MainProject(df0[i], file.stem, nanOut)))])

\* the part of the script after the loop, up to the table that is written
Finish(dfs) == RoundColumns(WithRadius(dfs))

(***************************************************************************)
(* DataProcessor                                                           *)
(***************************************************************************)
\* columns.str.replace(r"[\r\n]", " ").str.strip(), then .str.replace(r"\s+", " "),
\* on the header the extraction breaks over two lines; other headers are clean
CleanHeader(h) == IF h = "Nivel de tensión\r(kV)" THEN "Nivel de tensión (kV)" ELSE h

\* a cleaner that collapses the whitespace and leaves the ends as they are
limpiar_sin_strip(x) ==
    IF IsStr(x)
    THEN Str(CollapseSpaces(StrReplace(StrReplace(x.s, "\r", " "), "\n", " ")))
    ELSE x

limpiar_texto(x) ==
    IF IsStr(x)
    THEN Str(StrStrip(CollapseSpaces(StrReplace(StrReplace(x.s, "\r", " "), "\n", " "))))
    ELSE x

cols_numericas == {"kv", "cap_disp", "cap_comp", "cap_ocup", "cap_no_eval"}

\* astype(str).str.replace(",", ".").str.replace(r"[^\d\.\-]", ""), then
\* pd.to_numeric(errors="coerce")
NumericCoerce(c) == ToNumericCoerce(KeepNumericChars(StrReplace(AsStr(c), ",", ".")))

DataProcessor_get_color_by_percentage(porcentaje) ==
    IF FEq(porcentaje, F(0)) THEN "red"
    ELSE IF FLe(porcentaje, F(25)) THEN "orange"
    ELSE IF FLe(porcentaje, F(50)) THEN "yellow"
    ELSE IF FLe(porcentaje, F(75)) THEN "lightgreen"
    ELSE "green"

\* cap_total of process_data: cap_comp is not part of the sum
ProcessCapTotal(row) ==
    FAdd(FAdd(row["cap_disp"], row["cap_ocup"]), row["cap_no_eval"])

\* lines 42-87: clean headers and text, rename, coerce the numeric columns
ProcessPrepare(row) ==
    LET cleaned == [h \in {CleanHeader(g) : g \in DOMAIN row} |->
                       limpiar_texto(row[CHOOSE g \in DOMAIN row : CleanHeader(g) = h])]
        renamed == RenameColumns(cleaned, rename_cols)
    IN  [c \in DOMAIN renamed |->
            IF c \in cols_numericas THEN NumericCoerce(renamed[c]) ELSE renamed[c]]

\* lines 94-99: x, y as floats, lon and lat
ProcessGeo(row, nanOut) ==
    LET geo == Transform(CoordToFloat(row["x"]), CoordToFloat(row["y"]), nanOut)
    IN  [c \in DOMAIN row \cup {"lon", "lat"} |->
            CASE c = "x" -> CoordToFloat(row["x"])
              [] c = "y" -> CoordToFloat(row["y"])
              [] c = "lon" -> geo.lon
              [] c = "lat" -> geo.lat
              [] OTHER -> row[c]]

\* lines 103-112: cap_total, porcentaje_disponible, color
ProcessDerive(row) ==
    LET pct == PorcentajeDisponible(row["cap_disp"], ProcessCapTotal(row))
    IN  [c \in DOMAIN row \cup {"cap_total", "porcentaje_disponible", "color"} |->
            CASE c = "cap_total" -> ProcessCapTotal(row)
              [] c = "porcentaje_disponible" -> pct
              [] c = "color" -> Str(<<DataProcessor_get_color_by_percentage(pct)>>)
              [] OTHER -> row[c]]

\* process_data on self.data; on an exception df is self.data as the exception leaves it
process_data(data, nanOut) ==
    LET df2 == [i \in 1..Len(data) |-> ProcessPrepare(data[i])]
    IN  IF ~({"x", "y"} \subseteq Columns(df2)) THEN [err |-> "KeyError", df |-> df2]
        ELSE IF \E i \in 1..Len(df2) : CoordToFloat(df2[i]["x"]) = Err
             THEN [err |-> "ValueError", df |-> df2]
        ELSE IF \E i \in 1..Len(df2) : CoordToFloat(df2[i]["y"]) = Err
             THEN [err |-> "ValueError",
                   df |-> [i \in 1..Len(df2) |->
                             RowSet(df2[i], "x", CoordToFloat(df2[i]["x"]))]]
        ELSE IF ~({"cap_disp", "cap_ocup", "cap_no_eval"} \subseteq Columns(df2))
             THEN [err |-> "KeyError",
                   df |-> [i \in 1..Len(df2) |-> ProcessGeo(df2[i], nanOut)]]
        ELSE Returned(RoundColumns(WithRadius(
                 [i \in 1..Len(df2) |-> ProcessDerive(ProcessGeo(df2[i], nanOut))])))

(***************************************************************************)
(* app.py                                                                  *)
(***************************************************************************)
AppTextColumns == {"gestor_red", "provincia", "municipio", "subestacion_nombre", "subestacion"}

\* pd.to_numeric(column, errors="coerce").fillna(0), per cell
ToNumericFill0(c) ==
    LET v == IF c.k = "s" THEN ToNumericCoerce(c.s) ELSE c
    IN  IF IsNA(v) THEN F(0) ELSE v

None == [k |-> "None", rows |-> <<>>]
Frame(rows) == [k |-> "df", rows |-> rows]

\* df[mask]: the rows at the positions idx, in their order
SelectRows(rows, idx) ==
    LET RECURSIVE Build(_)
        Build(i) == IF i > Len(rows) THEN <<>>
                    ELSE (IF i \in idx THEN <<rows[i]>> ELSE <<>>) \o Build(i + 1)
    IN  Build(1)

HasCoords(row) == ~IsNA(row["lat"]) /\ ~IsNA(row["lon"])

\* df.dropna(subset=["lat", "lon"])
DropNaCoords(rows) == SelectRows(rows, {i \in 1..Len(rows) : HasCoords(rows[i])})

\* lines 56-69, per row
AppCleanRow(row) ==
    LET cleaned == [c \in DOMAIN row |->
                       CASE c \in AppTextColumns -> Str(StrStrip(AsStr(row[c])))
                         [] c \in {"cap_total", "cap_disp"} -> ToNumericFill0(row[c])
                         [] OTHER -> row[c]]
    IN  RowSet(cleaned, "porcentaje_disponible",
               PorcentajeDisponible(cleaned["cap_disp"], cleaned["cap_total"]))

LoadRows(rows) == [i \in 1..Len(DropNaCoords(rows)) |-> AppCleanRow(DropNaCoords(rows)[i])]

\* load_data(): None after st.error when the file is missing or any step raises
load_data(file) ==
    IF ~file.exists THEN None
    ELSE IF ~((AppTextColumns \cup {"lat", "lon", "cap_total", "cap_disp"})
                 \subseteq Columns(ReadCsv(file.rows)))
         THEN None
         ELSE Frame(LoadRows(ReadCsv(file.rows)))

\* the map colors on the thresholds of the batch pipeline
GetColorQuartiles(porcentaje) ==
    IF FEq(porcentaje, F(0)) THEN "#FF0000"
    ELSE IF FLe(porcentaje, F(25)) THEN "#FF6600"
    ELSE IF FLe(porcentaje, F(50)) THEN "#FFFF00"
    ELSE IF FLe(porcentaje, F(75)) THEN "#99FF00"
    ELSE "#00FF00"

get_color(porcentaje) ==
    IF FLe(porcentaje, F(20)) THEN "#FF0000"
    ELSE IF FLe(porcentaje, F(40)) THEN "#FF6600"
    ELSE IF FLe(porcentaje, F(60)) THEN "#FFFF00"
    ELSE IF FLe(porcentaje, F(80)) THEN "#99FF00"
    ELSE "#00FF00"

\* log2 of p/q > 0, linear between consecutive powers of two.  calculate_radius uses
\* only ratios of differences of logarithms, so the base does not matter.
RECURSIVE Log2Up(_, _, _)
Log2Up(p, q, k) == IF 2 * q <= p THEN Log2Up(p, 2 * q, k + 1) ELSE FAdd(F(k - 1), Q(p, q))
RECURSIVE Log2Down(_, _, _)
Log2Down(p, q, k) == IF p < q THEN Log2Down(2 * p, q, k - 1) ELSE FAdd(F(k - 1), Q(p, q))
Log2(p, q) == IF p >= q THEN Log2Up(p, q, 0) ELSE Log2Down(p, q, 0)

\* np.log1p: -inf at -1, NaN below -1
log1p(x) ==
    CASE x.k = "nan" \/ x.k = "-inf" -> NaN
      [] x.k = "inf" -> PInf
      [] x.n + x.d = 0 -> NInf
      [] x.n + x.d < 0 -> NaN
      [] OTHER -> Log2(x.n + x.d, x.d)

min_radius == 5
max_radius == 25

calculate_radius(cap_total, min_cap, max_cap) ==
    IF FEq(max_cap, min_cap) THEN F(min_radius)
    ELSE LET normalized == FDiv(FSub(log1p(cap_total), log1p(min_cap)),
                                FSub(log1p(max_cap), log1p(min_cap)))
         IN  FAdd(F(min_radius), FMul(F(max_radius - min_radius), normalized))

\* the selectbox entry that switches a filter off ("Todos", "Todas")
Todos == [k |-> "all"]

\* the entries a selectbox offers for a text column: its values other than "" and "nan"
TextOptions(rows, col) ==
    {Todos} \cup {rows[i][col] : i \in {j \in 1..Len(rows) :
                      /\ ~IsNA(rows[j][col])
                      /\ AsStr(rows[j][col]) \notin {<<>>, <<"n", "a", "n">>}}}

\* the entries for kv: str(k) of every value that is not missing
KvOptions(rows) ==
    {Todos} \cup {Str(AsStr(rows[i]["kv"])) : i \in {j \in 1..Len(rows) : ~IsNA(rows[j]["kv"])}}

FilterEq(rows, col, sel) ==
    IF sel = Todos THEN rows
    ELSE SelectRows(rows, {i \in 1..Len(rows) : rows[i][col] = sel})

\* df_filtrado[df_filtrado["kv"] == float(kv_seleccionado)]
FilterKv(rows, sel) ==
    IF sel = Todos THEN rows
    ELSE SelectRows(rows, {i \in 1..Len(rows) :
                              IsFloat(rows[i]["kv"]) /\ FEq(rows[i]["kv"], PyFloat(sel.s))})

\* the slider range without its end points
FilterRangeOpen(rows, min_disponible, max_disponible) ==
    SelectRows(rows, {i \in 1..Len(rows) :
                         /\ FGt(rows[i]["porcentaje_disponible"], F(min_disponible))
                         /\ FLt(rows[i]["porcentaje_disponible"], F(max_disponible))})

\* (porcentaje_disponible >= min_disponible) & (porcentaje_disponible <= max_disponible)
FilterRange(rows, min_disponible, max_disponible) ==
    SelectRows(rows, {i \in 1..Len(rows) :
                         /\ FGe(rows[i]["porcentaje_disponible"], F(min_disponible))
                         /\ FLe(rows[i]["porcentaje_disponible"], F(max_disponible))})

\* the circle markers of the map: one per row of df_filtrado
Markers(rows) ==
    LET min_cap == SeriesMin(rows, "cap_total")
        max_cap == SeriesMax(rows, "cap_total")
    IN  [i \in 1..Len(rows) |->
            [color |-> get_color(rows[i]["porcentaje_disponible"]),
             radius |-> calculate_radius(rows[i]["cap_total"], min_cap, max_cap),
             lat |-> rows[i]["lat"],
             lon |-> rows[i]["lon"]]]

NoView == [k |-> "none"]

(***************************************************************************)
(* Inputs: the spreadsheets of the working directory and the tables of     *)
(* atasco.pdf                                                              *)
(***************************************************************************)
Rec(name, prov, muni, x, y, kv, disp, comp, ocup, noev) ==
    [subestacion_nombre |-> Str(<<name>>), subestacion |-> Str(<<"ST", "-", name>>),
     provincia |-> Str(<<prov>>), municipio |-> Str(<<muni>>), x |-> x, y |-> y, kv |-> kv,
     cap_disp |-> disp, cap_comp |-> comp, cap_ocup |-> ocup, cap_no_eval |-> noev,
     comentarios |-> NaN, punto_conexion |-> Str(<<"PC", " ", name>>),
     id_punto |-> Str(<<name>>), extra |-> F(1)]

\* header -> field of Rec, for three report layouts
HeadersIDE ==
    ("Provincia" :> "provincia") @@ ("Municipio" :> "municipio")
    @@ ("Coordenada UTM X" :> "x") @@ ("Coordenada UTM Y" :> "y")
    @@ ("Subestación" :> "subestacion") @@ ("Nombre Subestación" :> "subestacion_nombre")
    @@ ("Nivel de Tensión (kV)" :> "kv") @@ ("Capacidad disponible (MW)" :> "cap_disp")
    @@ ("Capacidad comprometida por cuestiones regulatorias" :> "cap_comp")
    @@ ("Capacidad ocupada (MW)" :> "cap_ocup")
    @@ ("Capacidad admitida y no resuelta (MW)" :> "cap_no_eval")
    @@ ("Comentarios" :> "comentarios") @@ ("Posiciones libres" :> "extra")

HeadersUFD ==
    ("Provincia" :> "provincia") @@ ("Municipio" :> "municipio")
    @@ ("Coordenada UTM X [1]" :> "x") @@ ("Coordenada UTM Y [1]" :> "y")
    @@ ("Subestación " :> "subestacion") @@ ("Nombre subestación" :> "subestacion_nombre")
    @@ ("Nivel de tensión (kV)" :> "kv")
    @@ ("Capacidad firme disponible (MW) [2]" :> "cap_disp")
    @@ ("Capacidad comprometida por cuestiones regulatorias" :> "cap_comp")
    @@ ("Capacidad de acceso firme de demanda ocupada (MW) [3]" :> "cap_ocup")
    @@ ("Capacidad de acceso firme admitida y no evaluada (MW) [4]" :> "cap_no_eval")
    @@ ("Comentario Regulatorio" :> "comentarios") @@ ("Tipo" :> "extra")

HeadersPDF ==
    ("Provincia" :> "provincia") @@ ("Municipio" :> "municipio")
    @@ ("Coordenadas X (m) (ETRS89)" :> "x") @@ ("Coordenadas Y (m) (ETRS89)" :> "y")
    @@ ("Identificador de la subestación" :> "subestacion")
    @@ ("Nombre Subestación" :> "subestacion_nombre")
    @@ ("Nivel de tensión\r(kV)" :> "kv")
    @@ ("Denominación del Punto de Conexión" :> "punto_conexion")
    @@ ("Identificador del Punto de Conexión" :> "id_punto")
    @@ ("Capacidad firme disponible (MW)" :> "cap_disp")
    @@ ("Capacidad comprometida por cuestiones regulatorias" :> "cap_comp")
    @@ ("Capacidad de acceso firme de demanda ocupada (MW)" :> "cap_ocup")
    @@ ("Capacidad de acceso firme admitida y no evaluada (MW)" :> "cap_no_eval")
    @@ ("Comentario Regulatorio" :> "comentarios")

Table(headers, recs) ==
    [i \in 1..Len(recs) |-> [h \in DOMAIN headers |-> recs[i][headers[h]]]]

X1 == F(440000)
X2 == Str(<<"4", "4", "0", "1", "0", "0", ",", "5">>)
Y1 == F(4470000)
Y2 == Str(<<"4", "4", "7", "0", "2", "0", "0", ",", "2", "5">>)

\* cap_total 10 and 100; the second row is the 25 / 0 / 50 / 25 row
RowsA ==
    <<Rec("SA1", "Madrid", "Getafe", X1, Y1, F(132), F(10), F(0), F(0), F(0)),
      Rec("SA2", "Madrid", "Parla", X2, Y2, F(20),
          Str(<<"2", "5">>), F(0), Str(<<"5", "0">>), Str(<<"2", "5">>))>>

\* cap_total 50 and 200, cap_comp above 0
RowsB ==
    <<Rec("SB1", "Soria", "Almazan", X1, Y2, F(132), F(50), F(0), F(0), F(0)),
      Rec("SB2", "Soria", "Almazan", X2, Y1, NaN, F(50), F(50), F(50), F(50))>>

\* all capacities 0; a missing cell; a blank cell
RowsC ==
    <<Rec("SC1", "Madrid", "Getafe", X1, Y1, F(20), F(0), F(0), F(0), F(0)),
      Rec("SC2", "Soria", "Almazan", X2, Y2, F(20), F(10), NaN, F(5), F(5)),
      Rec("SC3", "Soria", "Agreda", X1, Y1, F(132), F(5), Str(<<" ">>), F(5), F(0))>>

\* minus signs; an availability that rounds to 0.0 without being 0
RowsD ==
    <<Rec("SD1", "Madrid", "Parla", X1, Y1, F(132),
          Str(<<"-", "5">>), F(0), Str(<<"2", ",", "5">>), F(0)),
      Rec("SD2", "Madrid", "Parla", X2, Y2, F(132), F(10), Str(<<"-", "5">>), F(0), F(0)),
      Rec("SD3", "Madrid", "Getafe", X1, Y2, F(20),
          Str(<<"0", ",", "0", "0", "1">>), F(0), F(3), F(0))>>

\* a row without coordinates
RowsE ==
    <<Rec("SE1", "Soria", "Agreda", NaN, NaN, F(20), F(20), F(0), F(20), F(0)),
      Rec("SE2", "Soria", "Agreda", X1, Y1, F(20), F(30), F(0), F(10), F(0))>>

\* a coordinate that is no number
RowsF ==
    <<Rec("SF1", "Madrid", "Getafe", Str(<<"s", "/", "d">>), Y1, F(20), F(1), F(1), F(1), F(1)),
      Rec("SF2", "Madrid", "Getafe", X1, Y1, F(20), F(4), F(0), F(4), F(0))>>

\* a capacity that is no number
RowsG ==
    <<Rec("SG1", "Madrid", "Parla", X1, Y1, F(20), F(4), F(0), F(4), F(0)),
      Rec("SG2", "Madrid", "Parla", X2, Y2, F(20),
          F(6), F(0), Str(<<"N", ".", "D", ".">>), F(2))>>

Without(f, h) == [g \in DOMAIN f \ {h} |-> f[g]]

Excel(stem, rows) == [stem |-> <<stem>>, rows |-> rows]

SampleFiles ==
    {Excel("IDE", Table(HeadersIDE, RowsA)),
     Excel("UFD", Table(HeadersUFD, RowsB)),
     Excel("VIESGO", Table(HeadersIDE, RowsC)),
     Excel("EREDES", Table(HeadersUFD, RowsD)),
     Excel("BEGASA", Table(HeadersIDE, RowsE)),
     Excel("ANSELMO", Table(HeadersUFD, RowsF)),
     Excel("ELECTRA", Table(HeadersIDE, RowsG)),
     Excel("PITARCH", Table(Without(HeadersIDE, "Comentarios"), RowsA))}

\* pd.concat of the tables tabula finds in atasco.pdf
SamplePdfs ==
    {Table(HeadersPDF, RowsB \o RowsE), Table(HeadersPDF, RowsC \o RowsD \o RowsG),
     Table(HeadersPDF, RowsF)}

\* most spreadsheets in the working directory
MaxFiles == 2

Range(seq) == {seq[i] : i \in 1..Len(seq)}

\* os.listdir, filtered to *.xlsx: distinct files in any order
RECURSIVE Listings(_)
Listings(n) ==
    IF n = 0 THEN {<<>>}
    ELSE Listings(n - 1) \cup
         {Append(l, f) : <<l, f>> \in
             {p \in Listings(n - 1) \X SampleFiles : Len(p[1]) = n - 1 /\ p[2] \notin Range(p[1])}}

\* the slider positions tried (the slider moves in steps of 5 from 0 to 100)
SliderRanges == {<<0, 100>>, <<25, 50>>}

(***************************************************************************)
(* State.  The merge script, a program that builds a DataProcessor and the *)
(* app are started by hand, one at a time: their steps do not interleave.  *)
(***************************************************************************)
VARIABLES
    excel_files,   \* __main__: the listing of the working directory
    next_file,     \* __main__: position of the loop in excel_files
    dfs_results,   \* __main__: the rows merged so far
    main_pc,       \* __main__: "idle", "loop", "done" or "crashed"
    main_err,      \* __main__: the exception that ended the run
    csv,           \* data.csv
    data,          \* DataProcessor.data
    dp_pc,         \* DataProcessor: "new", "loaded", "processed" or "crashed"
    dp_err,        \* the exception load_or_process_data raised
    df,            \* app: what load_data returned (cached), "unloaded" before it ran
    view,          \* app: the filter selections, df_filtrado and the map of the last run
    probe          \* the last call of a color function on its own: input and result

vars ==
    <<excel_files, next_file, dfs_results, main_pc, main_err, csv, data, dp_pc, dp_err,
      df, view, probe>>

main_vars == <<excel_files, next_file, dfs_results, main_pc, main_err>>
dp_vars == <<data, dp_pc, dp_err>>
app_vars == <<df, view>>

NoProbe == [k |-> "none"]

Init ==
    /\ excel_files = <<>>
    /\ next_file = 0
    /\ dfs_results = <<>>
    /\ main_pc = "idle"
    /\ main_err = "none"
    /\ csv = NoFile
    /\ data = None
    /\ dp_pc = "new"
    /\ dp_err = "none"
    /\ df = [k |-> "unloaded", rows |-> <<>>]
    /\ view = NoView
    /\ probe = NoProbe

\* what an unprojectable coordinate comes back as
NanOutcomes == {NaN, PInf}

(***************************************************************************)
(* __main__                                                                *)
(***************************************************************************)
\* files = os.listdir("."); excel_files = [...]; dfs_results = pd.DataFrame()
MainStart ==
    /\ main_pc = "idle"
    /\ dp_pc = "new"
    /\ view = NoView
    /\ \E listing \in Listings(MaxFiles) : excel_files' = listing
    /\ next_file' = 1
    /\ dfs_results' = <<>>
    /\ main_pc' = "loop"
    /\ UNCHANGED <<main_err, csv, dp_vars, app_vars, probe>>

\* one pass of "for file in excel_files"
MainReadFile ==
    /\ main_pc = "loop"
    /\ next_file <= Len(excel_files)
    /\ \E nanOut \in NanOutcomes :
          LET r == ReadExcelFile(excel_files[next_file], nanOut)
          IN  IF r.err # "none"
              THEN /\ main_pc' = "crashed"
                   /\ main_err' = r.err
                   /\ UNCHANGED <<dfs_results, next_file>>
              ELSE /\ dfs_results' = r.df \o dfs_results
                   /\ next_file' = next_file + 1
                   /\ UNCHANGED <<main_pc, main_err>>
    /\ UNCHANGED <<excel_files, csv, dp_vars, app_vars, probe>>

\* after the loop: radius, rounding, to_csv("data.csv")
MainFinish ==
    /\ main_pc = "loop"
    /\ next_file > Len(excel_files)
    /\ IF dfs_results = <<>>
       THEN /\ main_pc' = "crashed"
            /\ main_err' = "KeyError"
            /\ UNCHANGED <<dfs_results, csv>>
       ELSE /\ dfs_results' = Finish(dfs_results)
            /\ csv' = CsvFile(ToCsv(Finish(dfs_results)))
            /\ main_pc' = "done"
            /\ UNCHANGED main_err
    /\ UNCHANGED <<excel_files, next_file, dp_vars, app_vars, probe>>

(***************************************************************************)
(* DataProcessor                                                           *)
(***************************************************************************)
\* load_or_process_data without the os.path.exists test: the PDF is processed every time
process_always ==
    /\ dp_pc = "new"
    /\ main_pc # "loop"
    /\ view = NoView
    /\ \E pdf \in SamplePdfs, nanOut \in NanOutcomes :
          LET r == process_data(pdf, nanOut)
          IN  /\ data' = Frame(r.df)
              /\ dp_err' = r.err
              /\ dp_pc' = IF r.err = "none" THEN "processed" ELSE "crashed"
              /\ csv' = IF r.err = "none" THEN CsvFile(ToCsv(r.df)) ELSE csv
    /\ UNCHANGED <<main_vars, app_vars, probe>>

\* DataProcessor(pdf_path, csv_path): __init__ calls load_or_process_data
load_or_process_data ==
    /\ dp_pc = "new"
    /\ main_pc # "loop"
    /\ view = NoView
    /\ IF csv.exists
       THEN /\ data' = Frame(ReadCsv(csv.rows))
            /\ dp_pc' = "loaded"
            /\ UNCHANGED <<csv, dp_err>>
       ELSE \E pdf \in SamplePdfs, nanOut \in NanOutcomes :
               LET r == process_data(pdf, nanOut)
               IN  /\ data' = Frame(r.df)
                   /\ dp_err' = r.err
                   /\ dp_pc' = IF r.err = "none" THEN "processed" ELSE "crashed"
                   /\ csv' = IF r.err = "none" THEN CsvFile(ToCsv(r.df)) ELSE csv
    /\ UNCHANGED <<main_vars, app_vars, probe>>

\* the DataProcessor object goes away with the program that made it; data.csv stays
DataProcessorEnds ==
    /\ dp_pc # "new"
    /\ data' = None
    /\ dp_pc' = "new"
    /\ dp_err' = "none"
    /\ UNCHANGED <<main_vars, csv, app_vars, probe>>

(***************************************************************************)
(* app.py: one run of the script                                           *)
(***************************************************************************)
\* df = load_data(), the first run (st.cache_data keeps the result)
AppLoad ==
    /\ df.k = "unloaded"
    /\ main_pc # "loop"
    /\ dp_pc = "new"
    /\ df' = load_data(csv)
    /\ UNCHANGED <<main_vars, csv, dp_vars, view, probe>>

\* lines 131-171: the five filters in the order the script applies them
ApplyFilters(rows, gestor, provincia, municipio, kv, rango) ==
    FilterRange(
        FilterKv(
            FilterEq(FilterEq(FilterEq(rows, "gestor_red", gestor), "provincia", provincia),
                     "municipio", municipio),
            kv),
        rango[1], rango[2])

\* what each selectbox offers, given the selections above it
GestorOptions(rows) == TextOptions(rows, "gestor_red")
ProvinciaOptions(rows, gestor) == TextOptions(FilterEq(rows, "gestor_red", gestor), "provincia")
MunicipioOptions(rows, gestor, provincia) ==
    TextOptions(FilterEq(FilterEq(rows, "gestor_red", gestor), "provincia", provincia),
                "municipio")
TensionOptions(rows, gestor, provincia, municipio) ==
    KvOptions(FilterEq(FilterEq(FilterEq(rows, "gestor_red", gestor), "provincia", provincia),
                       "municipio", municipio))

RunView(rows, gestor, provincia, municipio, kv, rango) ==
    IF kv # Todos /\ PyFloat(kv.s) = Err THEN [k |-> "error"]
    ELSE [k |-> "view", gestor |-> gestor, provincia |-> provincia, municipio |-> municipio,
          kv |-> kv, rango |-> rango,
          df_filtrado |-> ApplyFilters(rows, gestor, provincia, municipio, kv, rango),
          markers |-> Markers(ApplyFilters(rows, gestor, provincia, municipio, kv, rango))]

\* a run with the sidebar as the user left it
AppRender ==
    /\ df.k = "df"
    /\ view = NoView
    /\ main_pc # "loop"
    /\ dp_pc = "new"
    /\ \E gestor \in GestorOptions(df.rows) :
       \E provincia \in ProvinciaOptions(df.rows, gestor) :
       \E municipio \in MunicipioOptions(df.rows, gestor, provincia) :
       \E kv \in TensionOptions(df.rows, gestor, provincia, municipio) :
       \E rango \in SliderRanges :
          view' = RunView(df.rows, gestor, provincia, municipio, kv, rango)
    /\ UNCHANGED <<main_vars, csv, dp_vars, df, probe>>

\* the run ends: its locals are gone, the next interaction runs the script again
AppRunEnds ==
    /\ view # NoView
    /\ view' = NoView
    /\ UNCHANGED <<main_vars, csv, dp_vars, df, probe>>

Next ==
    \/ MainStart
    \/ MainReadFile
    \/ MainFinish
    \/ load_or_process_data
    \/ DataProcessorEnds
    \/ AppLoad
    \/ AppRender
    \/ AppRunEnds

Spec == Init /\ [][Next]_vars

(***************************************************************************)
(* The color functions on their own                                        *)
(***************************************************************************)
\* most whole percent tried
MaxPct == 100

\* availabilities in steps of a half percent
ProbePcts == {Q(i, 2) : i \in 0..(2 * MaxPct)}

\* capacity rows tried: <<cap_disp, cap_comp, cap_ocup, cap_no_eval>>
ProbeRows == {<<25, 0, 50, 25>>, <<0, 0, 0, 0>>, <<20, 0, 80, 0>>, <<81, 9, 5, 5>>}

\* get_color(row["porcentaje_disponible"]) of the map
ProbeGetColor ==
    /\ \E pct \in ProbePcts :
          probe' = [k |-> "get_color", pct |-> pct, color |-> get_color(pct)]
    /\ UNCHANGED <<main_vars, csv, dp_vars, app_vars>>

\* df["porcentaje_disponible"].apply(_get_color_by_percentage) of the batch pipeline
ProbePrecomputedColor ==
    /\ \E pct \in ProbePcts :
          probe' = [k |-> "_get_color_by_percentage", pct |-> pct,
                    color |-> _get_color_by_percentage(pct)]
    /\ UNCHANGED <<main_vars, csv, dp_vars, app_vars>>

\* a row through cap_total, porcentaje_disponible and get_color
ProbeRowColor ==
    /\ \E caps \in ProbeRows :
          LET row == [cap_disp |-> F(caps[1]), cap_comp |-> F(caps[2]),
                      cap_ocup |-> F(caps[3]), cap_no_eval |-> F(caps[4])]
              pct == PorcentajeDisponible(row["cap_disp"], MainCapTotal(row))
          IN  probe' = [k |-> "row", caps |-> caps, pct |-> pct, color |-> get_color(pct)]
    /\ UNCHANGED <<main_vars, csv, dp_vars, app_vars>>

NextColor == ProbeGetColor \/ ProbePrecomputedColor \/ ProbeRowColor

SpecColor == Init /\ [][NextColor]_vars

(***************************************************************************)
(* Properties                                                              *)
(***************************************************************************)
\* the table __main__ wrote, as data.csv gives it back
PersistedMain == IF main_pc = "done" THEN ReadCsv(csv.rows) ELSE <<>>

\* the table process_data left in self.data and wrote
PersistedDP == IF dp_pc = "processed" THEN data.rows ELSE <<>>

PersistedRows == Range(PersistedMain) \cup Range(PersistedDP)

\* cap_disp as a percentage of cap_total, 0 when there is no positive total
GuardedPct(cap_disp, cap_total) ==
    IF IsNum(cap_total) /\ cap_total.n > 0
    THEN FMul(FDiv(cap_disp, cap_total), F(100))
    ELSE F(0)

\* C1: in every variant porcentaje_disponible is cap_disp / cap_total * 100 of the row's
\* cap_total when that total is above 0 and exactly 0 otherwise (a total of 0, below 0
\* or missing): it is always a finite number, never NaN or inf, and no run ends in a
\* division error.  The written tables hold it rounded to one decimal.
C1_PctGuarded ==
    /\ main_pc = "loop" =>
          \A r \in Range(dfs_results) :
              /\ IsNum(r["porcentaje_disponible"])
              /\ r["porcentaje_disponible"] = GuardedPct(r["cap_disp"], r["cap_total"])
    /\ \A r \in Range(PersistedMain) :
          /\ IsNum(r["porcentaje_disponible"])
          /\ r["porcentaje_disponible"] = Round(GuardedPct(r["cap_disp"], MainCapTotal(r)), 1)
    /\ \A r \in Range(PersistedDP) :
          /\ IsNum(r["porcentaje_disponible"])
          /\ r["porcentaje_disponible"]
                = Round(GuardedPct(r["cap_disp"], ProcessCapTotal(r)), 1)
    /\ df.k = "df" =>
          \A r \in Range(df.rows) :
              /\ IsNum(r["porcentaje_disponible"])
              /\ r["porcentaje_disponible"] = GuardedPct(r["cap_disp"], r["cap_total"])
    /\ {main_err, dp_err} \subseteq {"none", "KeyError", "ValueError"}

\* a row whose four capacities are 0 was written with availability 0 and loaded by the app
\* with availability 0
C1_ZeroTotalRowServed ==
    /\ \E r \in Range(PersistedMain) :
          /\ \A c \in CapColumns : r[c] = F(0)
          /\ r["cap_total"] = F(0)
          /\ r["porcentaje_disponible"] = F(0)
    /\ df.k = "df"
    /\ \E r \in Range(df.rows) :
          r["cap_disp"] = F(0) /\ r["cap_total"] = F(0) /\ r["porcentaje_disponible"] = F(0)

\* cap_disp + cap_comp + cap_ocup + cap_no_eval
SumOfFour(r) ==
    FAdd(FAdd(FAdd(r["cap_disp"], r["cap_comp"]), r["cap_ocup"]), r["cap_no_eval"])

\* C2: in every pipeline variant a row with four capacities a, b, c, d >= 0 is written
\* with cap_total = a + b + c + d (to two decimals), cap_comp included.
C2_CapTotalSumsFour ==
    \A r \in PersistedRows :
        (\A c \in CapColumns : IsNum(r[c]) /\ r[c].n >= 0)
            => r["cap_total"] = Round(SumOfFour(r), 2)

Fill0(v) == IF IsNA(v) THEN F(0) ELSE v

\* C3: a capacity that is missing, blank or not a number counts as 0: the row is written
\* with a cap_total that is a number, the sum of the capacities it does have, and with an
\* availability that is a number.
C3_MissingCountsAsZero ==
    /\ \A r \in PersistedRows :
          IsNum(r["cap_total"]) /\ IsNum(r["porcentaje_disponible"])
    /\ \A r \in Range(PersistedMain) :
          r["cap_total"]
             = Round(SumOfFour([c \in CapColumns |-> Fill0(r[c])]), 2)

\* C4: every written row has cap_total >= 0, an availability within [0, 100] when
\* cap_total > 0 and an availability of 0 when cap_total = 0, whatever signs the cells of
\* the report carried.
C4_TotalsAndPctInRange ==
    \A r \in PersistedRows :
        /\ FGe(r["cap_total"], F(0))
        /\ FGt(r["cap_total"], F(0)) =>
              /\ FGe(r["porcentaje_disponible"], F(0))
              /\ FLe(r["porcentaje_disponible"], F(100))
        /\ FEq(r["cap_total"], F(0)) => FEq(r["porcentaje_disponible"], F(0))

\* the five classes of the legend, by name
ClaimBucket(pct) ==
    CASE pct.n <= 20 * pct.d -> "critical"
      [] pct.n > 20 * pct.d /\ pct.n <= 40 * pct.d -> "low"
      [] pct.n > 40 * pct.d /\ pct.n <= 60 * pct.d -> "moderate"
      [] pct.n > 60 * pct.d /\ pct.n <= 80 * pct.d -> "good"
      [] pct.n > 80 * pct.d -> "excellent"

\* the class a color stands for: the legend of the map, the color names of the batch
BucketOf(color) ==
    CASE color \in {"#FF0000", "red"} -> "critical"
      [] color \in {"#FF6600", "orange"} -> "low"
      [] color \in {"#FFFF00", "yellow"} -> "moderate"
      [] color \in {"#99FF00", "lightgreen"} -> "good"
      [] color \in {"#00FF00", "green"} -> "excellent"

BoundaryBuckets ==
    (20 :> "critical") @@ (21 :> "low") @@ (40 :> "low") @@ (41 :> "moderate")
    @@ (60 :> "moderate") @@ (61 :> "good") @@ (80 :> "good") @@ (81 :> "excellent")

\* the classes of the map's colors
MapBucketsAsClaimed ==
    /\ probe.k = "get_color" =>
          /\ BucketOf(probe.color) = ClaimBucket(probe.pct)
          /\ \A b \in DOMAIN BoundaryBuckets :
                probe.pct = F(b) => BucketOf(probe.color) = BoundaryBuckets[b]
    /\ probe.k = "row" =>
          /\ BucketOf(probe.color)
                = ClaimBucket(GuardedPct(F(probe.caps[1]),
                      F(probe.caps[1] + probe.caps[2] + probe.caps[3] + probe.caps[4])))
          /\ probe.caps = <<25, 0, 50, 25>> => BucketOf(probe.color) = "low"

\* C5 as stated: every color function of the program puts an availability in the class
\* of the thresholds 20 / 40 / 60 / 80 (<= 20 critical, <= 40 low, <= 60 moderate,
\* <= 80 good, above excellent), the color column of the batch pipeline included.
C5_AllColorsOnLegendThresholds ==
    /\ MapBucketsAsClaimed
    /\ probe.k = "_get_color_by_percentage" =>
          BucketOf(probe.color) = ClaimBucket(probe.pct)

\* C5, for the colors of the map: get_color is total and puts an availability pct in
\* exactly one class: critical for pct <= 20, low for 20 < pct <= 40, moderate for
\* 40 < pct <= 60, good for 60 < pct <= 80, excellent above 80; so 20 is critical,
\* 21 low, 40 low, 41 moderate, 60 moderate, 61 good, 80 good, 81 excellent, and the
\* row 25 / 0 / 50 / 25 (availability 25) is low.
C5_MapColorsOnLegendThresholds ==
    /\ probe.k \in {"none", "get_color", "_get_color_by_percentage", "row"}
    /\ MapBucketsAsClaimed

\* get_color was asked for availability 20 and answered with the critical color
C5_BoundaryTwentyProbed ==
    probe = [k |-> "get_color", pct |-> F(20), color |-> "#FF0000"]

\* C6: the color of every written row is the batch bucketing function applied to the
\* porcentaje_disponible that row is written with, so rows written with the same
\* availability carry the same color.
C6_ColorFromStoredPct ==
    \A r \in PersistedRows :
        r["color"] = Str(<<_get_color_by_percentage(r["porcentaje_disponible"])>>)

\* radii over one population: numbers within [lo, hi], non-decreasing in the capacity,
\* lo at the smallest capacity and hi at the largest when the capacities differ
RadiusScaleOK(pts, lo, hi) ==
    /\ \A p \in pts : IsNum(p.radius) /\ FGe(p.radius, F(lo)) /\ FLe(p.radius, F(hi))
    /\ \A p, q \in pts : FLe(p.cap, q.cap) => FLe(p.radius, q.radius)
    /\ Cardinality({p.cap : p \in pts}) > 1 =>
          \A p \in pts :
              /\ (\A q \in pts : FLe(p.cap, q.cap)) => p.radius = F(lo)
              /\ (\A q \in pts : FGe(p.cap, q.cap)) => p.radius = F(hi)

RadiusPoints(rows) ==
    {[cap |-> rows[i]["cap_total"], radius |-> rows[i]["radius"]] : i \in 1..Len(rows)}

MarkerPoints ==
    {[cap |-> view.df_filtrado[i]["cap_total"], radius |-> view.markers[i].radius] :
        i \in 1..Len(view.markers)}

\* C7: over the population it is computed for, the radius is a number that does not
\* decrease as cap_total grows, is the smallest radius at the smallest cap_total and the
\* largest radius at the largest (3 and 15 in the written tables, min_radius and
\* max_radius on the map), and is one defined value when all cap_total are equal.
C7_RadiusMonotoneOnScale ==
    /\ RadiusScaleOK(RadiusPoints(PersistedMain), 3, 15)
    /\ RadiusScaleOK(RadiusPoints(PersistedDP), 3, 15)
    /\ view.k = "view" => RadiusScaleOK(MarkerPoints, min_radius, max_radius)

\* the orders os.listdir can give the same files in
RECURSIVE Orders(_)
Orders(files) ==
    IF files = {} THEN {<<>>}
    ELSE UNION {{<<f>> \o rest : rest \in Orders(files \ {f})} : f \in files}

\* dfs_results after the loop went through a listing none of whose files raises
RECURSIVE MergeAll(_)
MergeAll(listing) ==
    IF listing = <<>> THEN <<>>
    ELSE ReadExcelFile(listing[Len(listing)], NaN).df
            \o MergeAll(SubSeq(listing, 1, Len(listing) - 1))

\* the radius of each substation of each source
RadiusBySubstation(rows) ==
    {<<rows[i]["gestor_red"], rows[i]["subestacion"], rows[i]["radius"]>> : i \in 1..Len(rows)}

\* the smallest and the largest of a set of numbers
Least(S) == CHOOSE m \in S : \A v \in S : FLe(m, v)
Greatest(S) == CHOOSE m \in S : \A v \in S : FLe(v, m)

\* 3 + 12 * (total - lo) / (hi - lo) on the scale [lo, hi], 8 on a scale of one point
RadiusOnScale(total, totals) ==
    IF totals # {} /\ Greatest(totals) # Least(totals)
    THEN FAdd(F(3), FMul(FDiv(FSub(total, Least(totals)),
                              FSub(Greatest(totals), Least(totals))), F(12)))
    ELSE F(8)

\* C8: the merge gives no row a radius while sources are still being read; the radius
\* is computed once, over the concatenation of all sources, on the scale from the
\* smallest to the largest cap_total of the whole table, so no row keeps a radius on
\* the scale of its own source (ranges [10, 100] and [50, 200] give the scale
\* [10, 200]), and the radii are the same whatever order the sources are read in.
C8_RadiusOnGlobalScale ==
    [][/\ main_pc' = "loop" => \A r \in Range(dfs_results') : "radius" \notin DOMAIN r
       /\ (main_pc = "loop" /\ main_pc' = "done") =>
             LET totals == {t \in {SumOfFour(r) : r \in Range(dfs_results')} : IsNum(t)}
             IN  /\ \A r \in Range(dfs_results') :
                       r["radius"] = RadiusOnScale(SumOfFour(r), totals)
                 /\ \A listing \in Orders(Range(excel_files)) :
                       RadiusBySubstation(Finish(MergeAll(listing)))
                           = RadiusBySubstation(dfs_results')
                 /\ csv' = CsvFile(ToCsv(dfs_results'))]_vars

\* the sources with ranges [10, 100] and [50, 200] were merged: the row at 10 has the
\* smallest radius, the row at 200 the largest, the row at 100 lies on the scale [10, 200]
C8_TwoRangesMerged ==
    /\ main_pc = "done"
    /\ {f.stem : f \in Range(excel_files)} = {<<"IDE">>, <<"UFD">>}
    /\ \E r \in Range(dfs_results) :
          r["gestor_red"] = Str(<<"IDE">>) /\ r["cap_total"] = F(10) /\ r["radius"] = F(3)
    /\ \E r \in Range(dfs_results) :
          r["gestor_red"] = Str(<<"IDE">>) /\ r["cap_total"] = F(100)
             /\ r["radius"] = Q(165, 19)
    /\ \E r \in Range(dfs_results) :
          r["gestor_red"] = Str(<<"UFD">>) /\ r["cap_total"] = F(200) /\ r["radius"] = F(15)

\* C9: a cell of one row that cannot be read as a number (a coordinate, a capacity)
\* never ends a run: no run of the merge script and no run of process_data stops on
\* the ValueError of a cell; a run stops only for a failure of a whole source.
C9_RowFailureNeverAborts ==
    /\ main_pc = "crashed" => main_err # "ValueError"
    /\ dp_pc = "crashed" => dp_err # "ValueError"

\* C10: every written row and every row the app holds or draws has both lat and lon.
C10_RowsHaveCoordinates ==
    /\ \A r \in PersistedRows : ~IsNA(r["lat"]) /\ ~IsNA(r["lon"])
    /\ df.k = "df" => \A r \in Range(df.rows) : ~IsNA(r["lat"]) /\ ~IsNA(r["lon"])
    /\ view.k = "view" =>
          \A i \in 1..Len(view.markers) :
              ~IsNA(view.markers[i].lat) /\ ~IsNA(view.markers[i].lon)

\* C11 as stated: a run of any program of the pipeline that finds data.csv in place
\* reads no raw source, derives nothing and leaves the file as it is.
C11_ExistingFileNeverRederived ==
    [][csv.exists =>
          /\ csv' = csv
          /\ dfs_results' = dfs_results
          /\ dp_pc' \notin {"processed", "crashed"}]_vars

\* C11, for DataProcessor: a call of load_or_process_data that finds data.csv only reads
\* it (self.data is the table of the file, nothing is processed, the file keeps its
\* content); a call that finds no file processes the PDF and writes the file unless
\* process_data raises; data.csv, once there, stays, so after a call that created it
\* every later call takes the load-only path.
C11_DataProcessorLoadsExistingFile ==
    [][/\ (dp_pc = "new" /\ dp_pc' # "new") =>
             IF csv.exists
             THEN /\ dp_pc' = "loaded"
                  /\ csv' = csv
                  /\ data' = Frame(ReadCsv(csv.rows))
             ELSE /\ dp_pc' \in {"processed", "crashed"}
                  /\ dp_pc' = "processed" => csv' = CsvFile(ToCsv(data'.rows))
                  /\ dp_pc' = "crashed" => csv' = csv
       /\ csv.exists => csv'.exists]_vars

\* a DataProcessor found the data.csv an earlier DataProcessor had created from the PDF,
\* and loaded it
C11_SecondRunLoaded ==
    /\ main_pc = "idle"
    /\ csv.exists
    /\ dp_pc = "loaded"
    /\ data = Frame(ReadCsv(csv.rows))

(***************************************************************************)
(* The app on its own: started with a data.csv in place, the user filters  *)
(* and clicks markers                                                      *)
(***************************************************************************)
\* the listings every file of which the merge script gets through
GoodListings ==
    {l \in Listings(MaxFiles) : \A f \in Range(l) : ReadExcelFile(f, NaN).err = "none"}

\* what data.csv can be when the app starts: absent, written by the merge script, or
\* written by a DataProcessor
AppFiles ==
    {NoFile}
    \cup {CsvFile(ToCsv(Finish(MergeAll(l)))) : l \in GoodListings \ {<<>>}}
    \cup {CsvFile(ToCsv(process_data(pdf, NaN).df)) :
             pdf \in {t \in SamplePdfs : process_data(t, NaN).err = "none"}}

InitApp ==
    /\ excel_files = <<>>
    /\ next_file = 0
    /\ dfs_results = <<>>
    /\ main_pc = "idle"
    /\ main_err = "none"
    /\ csv \in AppFiles
    /\ data = None
    /\ dp_pc = "new"
    /\ dp_err = "none"
    /\ df = [k |-> "unloaded", rows |-> <<>>]
    /\ view = NoView
    /\ probe = NoProbe

\* np.sqrt((lat - clicked_lat) ** 2 + (lon - clicked_lon) ** 2), kept as the two
\* differences it is the length of; NaN when a difference is no number
Distancia(row, clicked_lat, clicked_lon) ==
    IF IsNum(FSub(row["lat"], clicked_lat)) /\ IsNum(FSub(row["lon"], clicked_lon))
    THEN [k |-> "hypot", dlat |-> FSub(row["lat"], clicked_lat),
          dlon |-> FSub(row["lon"], clicked_lon)]
    ELSE NaN

\* the user clicks marker i: the script runs again with the same selections and
\* map_data["last_object_clicked"] at that marker; df_filtrado, a table of its own, gets
\* the column distancia, and punto_cercano is the first row at distance 0 (idxmin)
AppClick ==
    /\ view.k = "view"
    /\ \E i \in 1..Len(view.markers) :
          /\ IsNum(view.markers[i].lat) /\ IsNum(view.markers[i].lon)
          /\ LET clicked_lat == view.markers[i].lat
                 clicked_lon == view.markers[i].lon
                 nearest == CHOOSE j \in 1..Len(view.df_filtrado) :
                               /\ view.df_filtrado[j]["lat"] = clicked_lat
                               /\ view.df_filtrado[j]["lon"] = clicked_lon
                               /\ \A h \in 1..(j - 1) :
                                     \/ view.df_filtrado[h]["lat"] # clicked_lat
                                     \/ view.df_filtrado[h]["lon"] # clicked_lon
             IN  view' = [k |-> "clicked", gestor |-> view.gestor,
                          provincia |-> view.provincia, municipio |-> view.municipio,
                          kv |-> view.kv, rango |-> view.rango,
                          df_filtrado |->
                              [j \in 1..Len(view.df_filtrado) |->
                                  RowSet(view.df_filtrado[j], "distancia",
                                         Distancia(view.df_filtrado[j],
                                                   clicked_lat, clicked_lon))],
                          markers |-> view.markers,
                          punto_cercano |-> view.df_filtrado[nearest]]
    /\ UNCHANGED <<main_vars, csv, dp_vars, df, probe>>

NextApp ==
    \/ AppLoad
    \/ AppRender
    \/ AppClick
    \/ AppRunEnds

SpecApp == InitApp /\ [][NextApp]_vars

\* a row passes the selections of a run: it carries the selected value of every
\* selectbox that is not on "all", and its availability is within the slider range,
\* end points included
MatchesSelections(row, v) ==
    /\ v.gestor = Todos \/ row["gestor_red"] = v.gestor
    /\ v.provincia = Todos \/ row["provincia"] = v.provincia
    /\ v.municipio = Todos \/ row["municipio"] = v.municipio
    /\ v.kv = Todos \/ (~IsNA(row["kv"]) /\ Str(AsStr(row["kv"])) = v.kv)
    /\ IsNum(row["porcentaje_disponible"])
    /\ row["porcentaje_disponible"].n >= v.rango[1] * row["porcentaje_disponible"].d
    /\ row["porcentaje_disponible"].n <= v.rango[2] * row["porcentaje_disponible"].d

\* a row of df_filtrado without the column the click handler adds
LoadedColumns(row) == [c \in DOMAIN row \ {"distancia"} |-> row[c]]

\* C12: in every run of the app, whatever was selected in the runs before, df_filtrado
\* holds exactly the loaded rows that carry the selected value of every selectbox not on
\* "all" (gestor_red, provincia, municipio, kv) and whose porcentaje_disponible is in
\* the slider range [min, max], end points included: each such row once, no other row;
\* the loaded table df is the same after every filter run and every click on a marker.
C12_ViewIsExactlyTheMatchingRows ==
    [][/\ view'.k \in {"view", "clicked"} =>
             /\ Len(view'.df_filtrado)
                   = Cardinality({i \in 1..Len(df'.rows) :
                                     MatchesSelections(df'.rows[i], view')})
             /\ {LoadedColumns(r) : r \in Range(view'.df_filtrado)}
                   = {df'.rows[i] : i \in {j \in 1..Len(df'.rows) :
                                              MatchesSelections(df'.rows[j], view')}}
       /\ df.k # "unloaded" => df' = df]_vars

\* a marker was clicked in a run with all four selectboxes set and the slider on
\* [25, 50]: some loaded rows passed, others did not
C12_FilteredAndClicked ==
    /\ view.k = "clicked"
    /\ Todos \notin {view.gestor, view.provincia, view.municipio, view.kv}
    /\ view.rango = <<25, 50>>
    /\ Len(view.df_filtrado) >= 1
    /\ Len(view.df_filtrado) < Len(df.rows)
    /\ \E r \in Range(view.df_filtrado) : r["porcentaje_disponible"] = F(25)

(***************************************************************************)
(* The cell and header functions on their own                              *)
(***************************************************************************)
\* DataFrame.rename(columns=mapping) on the column index, a list of names
RenameIndex(columns, mapping) == [i \in 1..Len(columns) |-> NewName(mapping, columns[i])]

\* the header rows of the three report layouts (in some order) and a header row that is
\* canonical already
HeaderLayouts ==
    LET RECURSIVE SeqOf(_)
        SeqOf(S) == IF S = {} THEN <<>>
                    ELSE LET h == CHOOSE x \in S : TRUE IN <<h>> \o SeqOf(S \ {h})
    IN  {SeqOf(DOMAIN HeadersIDE), SeqOf(DOMAIN HeadersUFD),
         SeqOf({CleanHeader(h) : h \in DOMAIN HeadersPDF}), SeqOf(MainColumns)}

\* headers a report can carry besides: every variant of the table, every canonical name,
\* names the table does not know
HeaderPool ==
    DOMAIN RENAME_DICT
    \cup {RENAME_DICT[h] : h \in DOMAIN RENAME_DICT}
    \cup {rename_cols[h] : h \in DOMAIN rename_cols}
    \cup {"Tipo", "Unnamed: 0", "provincia "}

\* most columns added to a layout
MaxExtra == 1

\* df.rename(columns=...) on a header row: as it is, in the opposite order, and on its
\* own result
ProbeRename ==
    /\ probe = NoProbe
    /\ \E table \in {"RENAME_DICT", "rename_cols"}, layout \in HeaderLayouts,
          extra \in UNION {[1..n -> HeaderPool] : n \in 0..MaxExtra} :
          LET mapping == IF table = "RENAME_DICT" THEN RENAME_DICT ELSE rename_cols
              columns == layout \o extra
          IN  probe' = [k |-> "rename", table |-> table, columns |-> columns,
                        renamed |-> RenameIndex(columns, mapping),
                        reversed |-> RenameIndex([i \in 1..Len(columns) |->
                                                     columns[Len(columns) + 1 - i]],
                                                 mapping),
                        twice |-> RenameIndex(RenameIndex(columns, mapping), mapping),
                        row |-> RenameColumns([h \in Range(columns) |-> Str(<<h>>)],
                                              mapping)]
    /\ UNCHANGED <<main_vars, csv, dp_vars, app_vars>>

\* longest generated cell text
MaxCellLen == 3

\* cells of a numeric column as the reports hold them: short texts over digits,
\* separators, a sign, a blank and a letter; longer texts of the reports; numbers
CellPool ==
    {Str(t) : t \in UNION {[1..n -> {"0", "1", ",", ".", "-", " ", "x"}] : n \in 0..MaxCellLen}}
    \cup {Str(<<"5", "0", "9", "1", "2", "3", ",", "4", "5">>),
          Str(<<"4", "5", " ", "M", "W">>),
          Str(<<"N", ".", "D", ".">>),
          Str(<<"1", ".", "2", "3", "4", ",", "5">>),
          Str(<<"0", ",", "0", "0", "0", "0", "1">>),
          Str(<<"2", ",", "5", "e", "-", "0", "5">>),
          F(12), Q(5, 2), Q(0 - 1, 4), Q(1, 100000), NaN}

\* the four conversions of a numeric column, on one cell, and on the text of the result
ProbeCoerce ==
    /\ probe = NoProbe
    /\ \E cell \in CellPool :
          \/ probe' = [k |-> "coerce", site |-> "process_data cols_numericas",
                       cell |-> cell, out |-> NumericCoerce(cell),
                       again |-> NumericCoerce(Str(AsStr(NumericCoerce(cell))))]
          \/ probe' = [k |-> "coerce", site |-> "process_data x, y",
                       cell |-> cell, out |-> CoordToFloat(cell),
                       again |-> IF CoordToFloat(cell) = Err THEN Err
                                 ELSE CoordToFloat(Str(AsStr(CoordToFloat(cell))))]
          \/ probe' = [k |-> "coerce", site |-> "__main__ x, y",
                       cell |-> cell, out |-> CoordToFloat(cell),
                       again |-> IF CoordToFloat(cell) = Err THEN Err
                                 ELSE CoordToFloat(Str(AsStr(CoordToFloat(cell))))]
          \/ probe' = [k |-> "coerce", site |-> "__main__ capacities",
                       cell |-> cell, out |-> CapToFloat(cell),
                       again |-> IF CapToFloat(cell) = Err THEN Err
                                 ELSE CapToFloat(Str(AsStr(CapToFloat(cell))))]
    /\ UNCHANGED <<main_vars, csv, dp_vars, app_vars>>

\* longest generated text
MaxTextLen == 4

\* cells of an object column: texts over a letter, blank, tab, CR and LF, a longer text
\* as the extraction breaks it over two lines, and cells that are no text
TextPool ==
    {Str(t) : t \in UNION {[1..n -> {"a", " ", "\t", "\r", "\n"}] : n \in 0..MaxTextLen}}
    \cup {Str(<<" ", "San", "\r", "\n", " ", " ", "Roque", "\t", "\n">>), F(12), Q(5, 2), NaN}

\* self.data[col].apply(limpiar_texto), on one cell, and on its own result
ProbeText ==
    /\ probe = NoProbe
    /\ \E x \in TextPool :
          probe' = [k |-> "limpiar_texto", x |-> x, out |-> limpiar_texto(x),
                    twice |-> limpiar_texto(limpiar_texto(x))]
    /\ UNCHANGED <<main_vars, csv, dp_vars, app_vars>>

NextCells == ProbeRename \/ ProbeCoerce \/ ProbeText

SpecCells == Init /\ [][NextCells]_vars

Reverse(seq) == [i \in 1..Len(seq) |-> seq[Len(seq) + 1 - i]]

\* the rename table a probe used, and the canonical names it renames to
ProbeTable == IF probe.table = "RENAME_DICT" THEN RENAME_DICT ELSE rename_cols
CanonicalNames(mapping) == {mapping[h] : h \in DOMAIN mapping}

\* C13: renaming gives every column whose header is a variant of the table the
\* canonical name of that variant (headers that differ by a trailing blank, a footnote
\* mark or the phrasing included) and leaves every other column under its own name,
\* without error; the name a column gets does not depend on where it stands, so the
\* columns in another order come out the same in that order; no canonical name is a
\* key of the table, so a header row that is canonical already is left as it is and
\* renaming twice is renaming once.
C13_RenameReconciles ==
    /\ CanonicalNames(RENAME_DICT) \cap DOMAIN RENAME_DICT = {}
    /\ CanonicalNames(rename_cols) \cap DOMAIN rename_cols = {}
    /\ probe.k = "rename" =>
          /\ Len(probe.renamed) = Len(probe.columns)
          /\ \A i \in 1..Len(probe.columns) :
                IF probe.columns[i] \in DOMAIN ProbeTable
                THEN probe.renamed[i] = ProbeTable[probe.columns[i]]
                ELSE probe.renamed[i] = probe.columns[i]
          /\ probe.table = "RENAME_DICT" =>
                \A i \in 1..Len(probe.columns) :
                    /\ probe.columns[i] \in {"Subestación", "Subestación "}
                          => probe.renamed[i] = "subestacion"
                    /\ probe.columns[i] \in {"Capacidad disponible (MW)",
                                             "Capacidad firme disponible (MW)",
                                             "Capacidad firme disponible (MW) [2]"}
                          => probe.renamed[i] = "cap_disp"
                    /\ probe.columns[i] \in {"Coordenada UTM X", "Coordenada UTM X [1]",
                                             "Coordenadas X (m) (ETRS89)"}
                          => probe.renamed[i] = "x"
          /\ probe.reversed = Reverse(probe.renamed)
          /\ probe.twice = probe.renamed
          /\ Range(probe.columns) \subseteq CanonicalNames(ProbeTable)
                => probe.renamed = probe.columns
          /\ \A i \in 1..Len(probe.columns) :
                (\A j \in 1..Len(probe.columns) :
                    probe.renamed[j] = probe.renamed[i] => probe.columns[j] = probe.columns[i])
                   => probe.row[probe.renamed[i]] = Str(<<probe.columns[i]>>)

\* the header row of a report with footnote marks and a column the table does not know
\* was renamed with RENAME_DICT
C13_FootnotedLayoutRenamed ==
    /\ probe.k = "rename"
    /\ probe.table = "RENAME_DICT"
    /\ \E i \in 1..Len(probe.columns) :
          /\ probe.columns[i] = "Capacidad firme disponible (MW) [2]"
          /\ probe.renamed[i] = "cap_disp"
    /\ \E i \in 1..Len(probe.columns) :
          probe.columns[i] = "Tipo" /\ probe.renamed[i] = "Tipo"
    /\ \E i \in 1..Len(probe.columns) : probe.columns[i] = "provincia "

\* the steps as stated: text form, commas to periods, everything but digits, periods
\* and minus signs removed, then the parsed float, or missing when the text is empty or
\* does not parse
StatedCoercion(cell) ==
    LET t == KeepNumericChars(StrReplace(AsStr(cell), ",", "."))
    IN  IF t = <<>> \/ ParseSigned(t) = Err THEN NaN ELSE ParseSigned(t)

\* C14: every numeric conversion of the pipelines, on every cell (decimal-comma text,
\* text with stray characters, empty text, a number), never raises, gives the float
\* the stated steps give (or missing), and gives the same float again on the text
\* form of a float it returned.
C14_CoercionTotalAndStepwise ==
    probe.k = "coerce" =>
        /\ probe.out # Err
        /\ probe.out = StatedCoercion(probe.cell)
        /\ IsNum(probe.out) => probe.again = probe.out

\* the words of a text: its maximal runs of characters that are no whitespace
RECURSIVE Words(_, _)
Words(s, word) ==
    IF s = <<>> THEN (IF word = <<>> THEN <<>> ELSE <<word>>)
    ELSE IF Head(s) \in Whitespace
         THEN (IF word = <<>> THEN <<>> ELSE <<word>>) \o Words(Tail(s), <<>>)
         ELSE Words(Tail(s), Append(word, Head(s)))

\* the words of a text with one blank between them
RECURSIVE JoinWords(_)
JoinWords(ws) ==
    IF ws = <<>> THEN <<>>
    ELSE IF Len(ws) = 1 THEN ws[1]
    ELSE ws[1] \o <<" ">> \o JoinWords(Tail(ws))

\* C15: limpiar_texto returns for a text a text without carriage return or line feed,
\* without two whitespace characters in a row and without whitespace at either end,
\* namely the words of the input with one blank between them; a cell that is no text
\* comes back unchanged; cleaning the result again changes nothing.
C15_TextNormalized ==
    probe.k = "limpiar_texto" =>
        /\ IF IsStr(probe.x)
           THEN /\ IsStr(probe.out)
                /\ \A i \in 1..Len(probe.out.s) : probe.out.s[i] \notin {"\r", "\n"}
                /\ \A i \in 1..(Len(probe.out.s) - 1) :
                      ~(probe.out.s[i] \in Whitespace /\ probe.out.s[i + 1] \in Whitespace)
                /\ probe.out.s # <<>> =>
                      /\ probe.out.s[1] \notin Whitespace
                      /\ probe.out.s[Len(probe.out.s)] \notin Whitespace
                /\ probe.out.s = JoinWords(Words(probe.x.s, <<>>))
           ELSE probe.out = probe.x
        /\ probe.twice = probe.out

\* a text broken over two lines, with a run of blanks and whitespace at both ends, was
\* cleaned to its two words
C15_BrokenLineCleaned ==
    /\ probe.k = "limpiar_texto"
    /\ probe.x = Str(<<" ", "San", "\r", "\n", " ", " ", "Roque", "\t", "\n">>)
    /\ probe.out = Str(<<"San", " ", "Roque">>)

====
